---- MODULE Spec2Model ----
(***************************************************************************)
(* Model of the quiz game component of src/app/page.tsx (the Game React    *)
(* component): its state hooks, its two effects, its event handlers and    *)
(* the delayed answer evaluation scheduled by handleAnswer.                *)
(*                                                                         *)
(* Every action is one browser task: an event handler, a timeout callback  *)
(* or an interval callback, followed by the re-render and by the effects   *)
(* whose dependencies changed, until no effect has anything left to do.    *)
(* State updates of one task are batched into one render.                  *)
(*                                                                         *)
(* Answers are sequences of one-character strings, so that toLowerCase is  *)
(* computed and not assumed; names and categories are plain strings.       *)
(***************************************************************************)
EXTENDS Integers, Sequences, FiniteSets

VARIABLES
    userName,              \* useState<string>('')
    category,              \* useState<string>('')
    gameState,             \* 'start' | 'playing' | 'won' | 'lost'
    currentQuestions,      \* useState<Question[]>([])
    currentQuestionIndex,  \* useState<number | null>(null)
    score,                 \* useState<number>(0)
    highestScore,          \* useState<number>(0)
    leaderboard,           \* useState<LeaderboardEntry[]>([])
    selectedOption,        \* useState<string | null>(null)
    userAnswer,            \* useState<string>('')
    timer,                 \* useState<number>(30)
    isPaused,              \* useState<boolean>(false)
    showValidationMessage, \* useState<boolean>(false)
    questionsData,         \* the imported question bank (arrays are mutable)
    localStorage,          \* the browser store: key leaderboard_<category>
    storageAvailable,      \* outcome of isLocalStorageAvailable()
    timeouts,              \* the setTimeout callbacks of handleAnswer in flight
    initialStorage,        \* history: localStorage when the page was loaded
    expiryRuns             \* history: runs of the timer effect's expiry branch

vars == <<userName, category, gameState, currentQuestions, currentQuestionIndex,
          score, highestScore, leaderboard, selectedOption, userAnswer, timer,
          isPaused, showValidationMessage, questionsData, localStorage,
          storageAvailable, timeouts, initialStorage, expiryRuns>>

----------------------------------------------------------------------------
(* Bounds and constants                                                    *)

\* The per-question countdown, in seconds.
QuestionTime == 30

\* At most this many answer evaluations are in flight at once.
MaxPending == 2

\* null of currentQuestionIndex and of selectedOption.
NullIndex == -1
NullOption == <<"null">>

\* '' of the answer field (answers are sequences of characters).
EmptyAnswer == <<>>

----------------------------------------------------------------------------
(* Strings                                                                 *)

toLowerCaseChar(c) ==
    CASE c = "H" -> "h"
      [] c = "O" -> "o"
      [] c = "N" -> "n"
      [] c = "I" -> "i"
      [] c = "C" -> "c"
      [] c = "E" -> "e"
      [] OTHER -> c

toLowerCase(s) == [i \in DOMAIN s |-> toLowerCaseChar(s[i])]

----------------------------------------------------------------------------
(* The question bank and the inputs of the player                          *)

Question(type, answer, options) ==
    [type |-> type, answer |-> answer, options |-> options]

\* questions.json: any mapping from category to a list of questions is
\* accepted by the import; "blank" is a category without questions.
QuestionBank ==
    [c \in {"science", "math", "blank"} |->
        IF c = "science"
        THEN << Question("mcq", <<"O", "2">>, << <<"N", "2">>, <<"O", "2">> >>),
                Question("fill", <<"H", "2", "O">>, <<>>),
                Question("riddle", <<"i", "c", "e">>, <<>>) >>
        ELSE IF c = "math"
        THEN << Question("mcq", <<"4">>, << <<"4">>, <<"5">> >>),
                Question("mcq", <<"9">>, << <<"8">>, <<"9">> >>) >>
        ELSE <<>>]

Categories == DOMAIN QuestionBank

\* What the player can type as a name, and into the answer field.
UserNames == {"", "ann"}
TypedAnswers == {<<"h", "2", "o">>, <<"I", "c", "e">>}

LeaderboardEntry(name, sc) == [name |-> name, score |-> sc]

\* What earlier visits may have left in the store (leaderboards are saved
\* sorted): nothing, or two entries for science.
StoredBoard == << LeaderboardEntry("bob", 1), LeaderboardEntry("cy", 0) >>

InitialStores ==
    { [c \in Categories |-> <<>>],
      [c \in Categories |-> IF c = "science" THEN StoredBoard ELSE <<>>] }

----------------------------------------------------------------------------
(* Pure helpers                                                            *)

\* A shuffle that draws every position independently (with repeats).
ShufflesWithRepeats(s) == [DOMAIN s -> {s[i] : i \in DOMAIN s}]

\* Every order sort(() => Math.random() - 0.5) can leave the array in.
RECURSIVE Shuffles(_)
Shuffles(s) ==
    IF Len(s) = 0 THEN {<<>>}
    ELSE UNION { { <<s[i]>> \o p :
                     p \in Shuffles(SubSeq(s, 1, i - 1) \o SubSeq(s, i + 1, Len(s))) }
                 : i \in 1..Len(s) }

\* Array.prototype.sort((a, b) => b.score - a.score): stable, descending.
RECURSIVE InsertByScore(_, _)
InsertByScore(sorted, e) ==
    IF sorted = <<>> THEN <<e>>
    ELSE IF sorted[Len(sorted)].score >= e.score
         THEN Append(sorted, e)
         ELSE Append(InsertByScore(SubSeq(sorted, 1, Len(sorted) - 1), e),
                     sorted[Len(sorted)])

RECURSIVE SortByScore(_)
SortByScore(s) ==
    IF s = <<>> THEN <<>>
    ELSE InsertByScore(SortByScore(SubSeq(s, 1, Len(s) - 1)), s[Len(s)])

RECURSIVE MaxScore(_)
MaxScore(s) ==
    IF s = <<>> THEN 0
    ELSE LET m == MaxScore(Tail(s))
         IN  IF Len(s) = 1 THEN s[1].score
             ELSE IF s[1].score > m THEN s[1].score ELSE m

----------------------------------------------------------------------------
(* The component's state as one record, for the handlers to transform      *)

Cur ==
    [userName |-> userName, category |-> category, gameState |-> gameState,
     currentQuestions |-> currentQuestions,
     currentQuestionIndex |-> currentQuestionIndex, score |-> score,
     highestScore |-> highestScore, leaderboard |-> leaderboard,
     selectedOption |-> selectedOption, userAnswer |-> userAnswer,
     timer |-> timer, isPaused |-> isPaused,
     showValidationMessage |-> showValidationMessage,
     questionsData |-> questionsData, localStorage |-> localStorage,
     storageAvailable |-> storageAvailable, timeouts |-> timeouts,
     initialStorage |-> initialStorage, expiryRuns |-> expiryRuns]

Commit(st) ==
    /\ userName' = st.userName
    /\ category' = st.category
    /\ gameState' = st.gameState
    /\ currentQuestions' = st.currentQuestions
    /\ currentQuestionIndex' = st.currentQuestionIndex
    /\ score' = st.score
    /\ highestScore' = st.highestScore
    /\ leaderboard' = st.leaderboard
    /\ selectedOption' = st.selectedOption
    /\ userAnswer' = st.userAnswer
    /\ timer' = st.timer
    /\ isPaused' = st.isPaused
    /\ showValidationMessage' = st.showValidationMessage
    /\ questionsData' = st.questionsData
    /\ localStorage' = st.localStorage
    /\ storageAvailable' = st.storageAvailable
    /\ timeouts' = st.timeouts
    /\ initialStorage' = st.initialStorage
    /\ expiryRuns' = st.expiryRuns

----------------------------------------------------------------------------
(* handleGameOver and the effects                                          *)

isLocalStorageAvailable(st) == st.storageAvailable

\* handleGameOver as the closure of render r (its leaderboard, userName, score
\* and category), acting on the state st.
handleGameOver(r, st) ==
    IF isLocalStorageAvailable(st)
    THEN LET newLeaderboard ==
                 SortByScore(Append(r.leaderboard,
                                    LeaderboardEntry(r.userName, r.score)))
         IN  [st EXCEPT !.localStorage[r.category] = newLeaderboard,
                        !.leaderboard = newLeaderboard]
    ELSE st

\* An interval that keeps running while the game is paused.
IntervalRunningIgnoringPause(st) ==
    st.gameState = "playing" /\ st.timer > 0

\* The interval of the timer effect is installed.
IntervalRunning(st) ==
    ~st.isPaused /\ st.gameState = "playing" /\ st.timer > 0

\* One run of the timer effect after the render of st.
timerEffect(st) ==
    IF IntervalRunning(st) THEN st
    ELSE IF st.timer = 0
         THEN handleGameOver(st, [st EXCEPT !.gameState = "lost",
                                            !.expiryRuns = @ + 1])
         ELSE st

timerEffectDeps(st) == <<st.isPaused, st.gameState, st.timer>>

\* The interval is cleared and installed again whenever the timer effect
\* re-runs (1000 ms to its next tick), so a 1000 ms timeout scheduled before
\* the re-run is due before that tick.
MarkDue(st) ==
    [st EXCEPT !.timeouts = [i \in DOMAIN @ |-> [@[i] EXCEPT !.due = TRUE]]]

\* The playing screen reads currentQuestions[currentQuestionIndex].content:
\* with no question at that index the render throws, and the component is
\* unmounted for good (nothing catches the error).
RenderThrows(st) ==
    /\ st.gameState = "playing"
    /\ st.currentQuestionIndex # NullIndex
    /\ st.currentQuestionIndex + 1 \notin DOMAIN st.currentQuestions

\* Re-render after a task changed rendered into next, and run the timer effect
\* as long as its dependencies keep changing.
RECURSIVE Render(_, _)
Render(rendered, next) ==
    IF RenderThrows(next) THEN next
    ELSE IF timerEffectDeps(rendered) = timerEffectDeps(next) THEN next
    ELSE Render(next, timerEffect(MarkDue(next)))

\* The leaderboard effect, run when category changed.
leaderboardEffect(st) ==
    IF st.category # "" /\ st.category \in DOMAIN st.questionsData
    THEN IF isLocalStorageAvailable(st)
         THEN LET storedScores == st.localStorage[st.category]
              IN  [st EXCEPT !.highestScore = MaxScore(storedScores),
                             !.leaderboard = storedScores]
         ELSE [st EXCEPT !.highestScore = 0, !.leaderboard = <<>>]
    ELSE st

----------------------------------------------------------------------------
(* Initial state: the page has just been loaded                            *)

Init ==
    /\ userName = ""
    /\ category = ""
    /\ gameState = "start"
    /\ currentQuestions = <<>>
    /\ currentQuestionIndex = NullIndex
    /\ score = 0
    /\ highestScore = 0
    /\ leaderboard = <<>>
    /\ selectedOption = NullOption
    /\ userAnswer = EmptyAnswer
    /\ timer = QuestionTime
    /\ isPaused = FALSE
    /\ showValidationMessage = FALSE
    /\ questionsData = QuestionBank
    /\ localStorage \in InitialStores
    /\ storageAvailable \in BOOLEAN
    /\ timeouts = <<>>
    /\ initialStorage = localStorage
    /\ expiryRuns = 0

----------------------------------------------------------------------------
(* Start screen                                                            *)

\* onChange of the name input.
setUserName(name) ==
    /\ gameState = "start"
    /\ name # userName
    /\ Commit([Cur EXCEPT !.userName = name])

\* onChange of the category select, and the leaderboard effect it triggers.
setCategory(cat) ==
    /\ gameState = "start"
    /\ cat # category
    /\ Commit(leaderboardEffect([Cur EXCEPT !.category = cat]))

\* handleStart when the name or the category is missing.
handleStartInvalid ==
    /\ gameState = "start"
    /\ userName = "" \/ category = ""
    /\ Commit([Cur EXCEPT !.showValidationMessage = TRUE])

\* handleStart with a name and a category: the bank's array is sorted in place
\* with a random comparator and becomes the session's question order.
handleStart ==
    /\ gameState = "start"
    /\ ~(userName = "" \/ category = "")
    /\ \E shuffledQuestions \in Shuffles(questionsData[category]) :
          Commit(Render(Cur,
              [Cur EXCEPT !.questionsData[category] = shuffledQuestions,
                          !.currentQuestions = shuffledQuestions,
                          !.showValidationMessage = FALSE,
                          !.gameState = "playing",
                          !.currentQuestionIndex = 0,
                          !.score = 0,
                          !.selectedOption = NullOption,
                          !.userAnswer = EmptyAnswer,
                          !.timer = QuestionTime]))

----------------------------------------------------------------------------
(* Playing                                                                 *)

Mounted == ~RenderThrows(Cur)

QuestionShown ==
    Mounted /\ gameState = "playing" /\ currentQuestionIndex # NullIndex

CurrentQuestion == currentQuestions[currentQuestionIndex + 1]

\* handleAnswer(selected): evaluates the answer against the rendered question
\* and schedules the outcome 1000 ms later; the callback keeps the values of
\* the render it was created in.
handleAnswer(selected) ==
    /\ ~(gameState # "playing" \/ currentQuestionIndex = NullIndex)
    /\ Len(timeouts) < MaxPending
    /\ LET correct == toLowerCase(CurrentQuestion.answer) = toLowerCase(selected)
           callback == [correct |-> correct,
                        currentQuestionIndex |-> currentQuestionIndex,
                        length |-> Len(currentQuestions),
                        leaderboard |-> leaderboard,
                        userName |-> userName,
                        score |-> score,
                        category |-> category,
                        due |-> FALSE,
                        \* history: submitted while an evaluation for the same
                        \* question was already scheduled
                        duringReveal |->
                            \E i \in DOMAIN timeouts :
                                timeouts[i].currentQuestionIndex = currentQuestionIndex]
       IN  Commit([Cur EXCEPT !.selectedOption = selected,
                              !.timeouts = Append(@, callback)])

\* Click on an option button of an mcq question (disabled once one is selected).
clickOption ==
    /\ QuestionShown
    /\ CurrentQuestion.type = "mcq"
    /\ selectedOption = NullOption
    /\ \E i \in DOMAIN CurrentQuestion.options :
          handleAnswer(CurrentQuestion.options[i])

\* onChange of the answer input of a fill or riddle question.
setUserAnswer(text) ==
    /\ QuestionShown
    /\ CurrentQuestion.type \in {"fill", "riddle"}
    /\ text # userAnswer
    /\ Commit([Cur EXCEPT !.userAnswer = text])

\* Click on Submit of a fill or riddle question (never disabled).
clickSubmit ==
    /\ QuestionShown
    /\ CurrentQuestion.type \in {"fill", "riddle"}
    /\ handleAnswer(userAnswer)

\* A callback that leaves the countdown where it was.
answerTimeoutKeepingTimer(cb, st) ==
    IF cb.correct
    THEN LET scored == [st EXCEPT !.score = @ + 1]
         IN  IF cb.currentQuestionIndex = cb.length - 1
             THEN [scored EXCEPT !.gameState = "won"]
             ELSE [scored EXCEPT
                      !.currentQuestionIndex = cb.currentQuestionIndex + 1,
                      !.selectedOption = NullOption,
                      !.userAnswer = EmptyAnswer]
    ELSE handleGameOver(cb, [st EXCEPT !.gameState = "lost"])

\* The body of the setTimeout callback of handleAnswer, for the closure cb.
answerTimeout(cb, st) ==
    LET evaluated ==
            IF cb.correct
            THEN LET scored == [st EXCEPT !.score = @ + 1]
                 IN  IF cb.currentQuestionIndex = cb.length - 1
                     THEN [scored EXCEPT !.gameState = "won"]
                     ELSE [scored EXCEPT
                              !.currentQuestionIndex = cb.currentQuestionIndex + 1,
                              !.selectedOption = NullOption,
                              !.userAnswer = EmptyAnswer]
            ELSE handleGameOver(cb, [st EXCEPT !.gameState = "lost"])
    IN  [evaluated EXCEPT !.timer = QuestionTime]

\* The oldest scheduled answer evaluation fires.  While the interval runs, its
\* tick was scheduled first (same 1000 ms delay) and comes first.
timeoutFires ==
    /\ Mounted
    /\ timeouts # <<>>
    /\ Head(timeouts).due \/ ~IntervalRunning(Cur)
    /\ Commit(Render(Cur,
                     answerTimeout(Head(timeouts),
                                   [Cur EXCEPT !.timeouts = Tail(@)])))

\* The interval callback of the timer effect: one second has passed.  A
\* scheduled evaluation that is due fires before the next tick.
tick ==
    /\ Mounted
    /\ IntervalRunning(Cur)
    /\ \A i \in DOMAIN timeouts : ~timeouts[i].due
    /\ Commit(Render(Cur, [Cur EXCEPT !.timer = @ - 1]))

\* A button whose resume restarts the countdown.
handlePauseResumeResetting ==
    /\ QuestionShown
    /\ Commit(Render(Cur, [Cur EXCEPT !.isPaused = ~isPaused,
                                      !.timer = IF isPaused THEN QuestionTime
                                                ELSE @]))

\* handlePauseResume (the button is rendered while playing).
handlePauseResume ==
    /\ QuestionShown
    /\ Commit(Render(Cur, [Cur EXCEPT !.isPaused = ~isPaused]))

----------------------------------------------------------------------------
Next ==
    \/ \E name \in UserNames : setUserName(name)
    \/ \E cat \in Categories \cup {""} : setCategory(cat)
    \/ handleStartInvalid
    \/ handleStart
    \/ clickOption
    \/ \E text \in TypedAnswers \cup {EmptyAnswer} : setUserAnswer(text)
    \/ clickSubmit
    \/ timeoutFires
    \/ tick
    \/ handlePauseResume

Spec == Init /\ [][Next]_vars

TypeOK ==
    /\ gameState \in {"start", "playing", "won", "lost"}
    /\ timer \in 0..QuestionTime
    /\ score \in Nat
    /\ Len(timeouts) <= MaxPending

----------------------------------------------------------------------------
(* Properties                                                              *)

Terminal == gameState \in {"won", "lost"}

\* C1: in every reachable state, if the game state is won then score equals
\* the number of questions of the session's question order.
WonScoreIsLength ==
    gameState = "won" => score = Len(currentQuestions)

\* C2: won and lost are absorbing: no step taken from a state whose game state
\* is won or lost changes the game state.
TerminalAbsorbing ==
    [][Terminal => gameState' = gameState]_vars

\* C3: every step taken from a state whose game state is won or lost leaves
\* score, currentQuestionIndex and timer unchanged.
TerminalFrame ==
    [][Terminal => /\ score' = score
                   /\ currentQuestionIndex' = currentQuestionIndex
                   /\ timer' = timer]_vars

\* C4: over one session the stored leaderboard of every category grows by at
\* most one entry.
AtMostOneEntryPerSession ==
    \A c \in Categories : Len(localStorage[c]) <= Len(initialStorage[c]) + 1

\* C5: the step that takes the session from playing to won or to lost, with
\* the store available, leaves the category's stored leaderboard one entry
\* longer at least and containing the entry {name: userName, score}.
TerminalPersisted ==
    [][(gameState = "playing" /\ gameState' \in {"won", "lost"} /\ storageAvailable)
         => /\ Len(localStorage'[category]) > Len(localStorage[category])
            /\ \E i \in DOMAIN localStorage'[category] :
                  localStorage'[category][i] = LeaderboardEntry(userName, score')]_vars

\* The current question has an answer awaiting evaluation, and every answer
\* awaiting evaluation is correct.
CorrectAnswerPending ==
    /\ gameState = "playing"
    /\ \E i \in DOMAIN timeouts :
          timeouts[i].currentQuestionIndex = currentQuestionIndex
    /\ \A i \in DOMAIN timeouts : timeouts[i].correct

\* C6: a session whose player answered the current question correctly while
\* its timer was above 0 (and gave no wrong answer) does not become lost while
\* that answer awaits its evaluation.
CorrectInTimeNeverLost ==
    [][CorrectAnswerPending => gameState' # "lost"]_vars

\* C7: the evaluation of an answer that was submitted during the reveal window
\* of an earlier submission for the same question changes neither score nor
\* currentQuestionIndex.
SecondSubmitNoOp ==
    [][(timeouts # <<>> /\ Len(timeouts') < Len(timeouts)
          /\ Head(timeouts).duringReveal)
         => (score' = score /\ currentQuestionIndex' = currentQuestionIndex)]_vars

\* C8: in every reachable state whose game state is lost, score equals
\* currentQuestionIndex.
LostScoreIsIndex ==
    gameState = "lost" => score = currentQuestionIndex

\* C9: in every reachable state of a session, score is at most
\* currentQuestionIndex, plus one if the game state is won.
ScoreAtMostIndex ==
    currentQuestionIndex # NullIndex
        => score <= currentQuestionIndex + (IF gameState = "won" THEN 1 ELSE 0)

\* C10: when the timer has reached 0 the game state is lost, and the expiry
\* branch of the timer effect (lost plus handleGameOver) has run once, not
\* twice.
ExpiryHandledOnce ==
    /\ timer = 0 => gameState = "lost"
    /\ expiryRuns <= 1

\* The step is a click on Start Game: on the start screen every other handler
\* changes userName or category.
StartClicked ==
    /\ gameState = "start"
    /\ userName' = userName
    /\ category' = category
    /\ vars' # vars

\* C11: a click on Start Game with an empty name, an empty or unknown category
\* or a category without questions leaves the game state at start, creates no
\* session and shows the validation message.
InvalidStartRejected ==
    [][(StartClicked /\ (\/ userName = ""
                         \/ category = ""
                         \/ category \notin DOMAIN questionsData
                         \/ questionsData[category] = <<>>))
         => /\ gameState' = "start"
            /\ currentQuestionIndex' = NullIndex
            /\ score' = score
            /\ currentQuestions' = currentQuestions
            /\ showValidationMessage' = TRUE]_vars

Count(q, seq) == Cardinality({i \in DOMAIN seq : seq[i] = q})

\* a and b hold the same elements with the same multiplicities.
SameElements(a, b) ==
    /\ Len(a) = Len(b)
    /\ \A i \in DOMAIN a : Count(a[i], a) = Count(a[i], b)

\* C12: the step from start to playing yields currentQuestionIndex 0, score 0,
\* timer 30, isPaused false and a question order with the same elements, in
\* the same multiplicities, as the chosen category's list in the bank.
StartCreatesSession ==
    [][(gameState = "start" /\ gameState' = "playing")
         => /\ currentQuestionIndex' = 0
            /\ score' = 0
            /\ timer' = QuestionTime
            /\ isPaused' = FALSE
            /\ SameElements(currentQuestions', QuestionBank[category'])]_vars

\* A session was started on three questions in an order other than the bank's.
StartCreatesSessionWitness ==
    /\ gameState = "playing"
    /\ timeouts = <<>>
    /\ Len(currentQuestions) = 3
    /\ currentQuestions # QuestionBank[category]
    /\ currentQuestionIndex = 0 /\ score = 0 /\ timer = QuestionTime

\* C13: no step taken while isPaused is true lowers the timer, and the step
\* that resumes leaves the timer at the value it had during the pause.
PausedTimerFrozen ==
    [][isPaused => /\ timer' >= timer
                   /\ ~isPaused' => timer' = timer]_vars

\* The game is paused in the middle of a countdown.
PausedTimerFrozenWitness ==
    /\ gameState = "playing"
    /\ isPaused
    /\ timer \in 1..(QuestionTime - 1)

\* The step is a click on the Pause/Resume button of a paused game: while
\* paused there is no tick, and every other handler of the playing screen
\* changes userAnswer or the number of scheduled evaluations.
PausedButtonClicked ==
    /\ QuestionShown
    /\ isPaused
    /\ userAnswer' = userAnswer
    /\ Len(timeouts') = Len(timeouts)
    /\ vars' # vars

\* C14: the pause operation invoked while the game is already paused leaves
\* isPaused true and the timer unchanged.
PauseIdempotent ==
    [][PausedButtonClicked => (isPaused' = TRUE /\ timer' = timer)]_vars

\* C14 as amended: the one pause operation of the component is the toggle
\* handlePauseResume; invoked while paused it resumes (isPaused false), and
\* it leaves timer, score, currentQuestionIndex and the game state unchanged.
PauseToggles ==
    [][PausedButtonClicked => /\ isPaused' = FALSE
                              /\ timer' = timer
                              /\ score' = score
                              /\ currentQuestionIndex' = currentQuestionIndex
                              /\ gameState' = gameState]_vars

\* The game was paused and resumed by a second click before any tick: the
\* answer to the current question is due although the timer is still full.
PauseTogglesWitness ==
    /\ gameState = "playing"
    /\ ~isPaused
    /\ timer = QuestionTime
    /\ \E i \in DOMAIN timeouts :
          timeouts[i].due
              /\ timeouts[i].currentQuestionIndex = currentQuestionIndex

\* C15: whenever currentQuestionIndex is defined it is an index of the
\* session's question order: 0 <= currentQuestionIndex < length.
IndexInRange ==
    currentQuestionIndex # NullIndex
        => /\ 0 <= currentQuestionIndex
           /\ currentQuestionIndex < Len(currentQuestions)

\* C16: every step that advances currentQuestionIndex to the next question
\* increments score by exactly 1 and sets the timer to 30.
AdvanceScoresAndResets ==
    [][(currentQuestionIndex # NullIndex
          /\ currentQuestionIndex' = currentQuestionIndex + 1)
         => (score' = score + 1 /\ timer' = QuestionTime)]_vars

\* The second question has just been reached: the first answer was evaluated
\* after a tick of its countdown, and the timer is full again.
AdvanceScoresAndResetsWitness ==
    /\ gameState = "playing"
    /\ ~isPaused
    /\ timeouts = <<>>
    /\ currentQuestionIndex = 1
    /\ score = 1
    /\ timer = QuestionTime

SortedByScore(board) ==
    \A i, j \in DOMAIN board : i < j => board[i].score >= board[j].score

\* old is what is left of new when one of its entries is removed, the others
\* keeping their order.
RECURSIVE IsSubsequence(_, _)
IsSubsequence(old, new) ==
    IF old = <<>> THEN TRUE
    ELSE IF new = <<>> THEN FALSE
    ELSE IF Head(old) = Head(new)
         THEN IsSubsequence(Tail(old), Tail(new))
         ELSE IsSubsequence(old, Tail(new))

\* C17: every step that changes a category's stored leaderboard leaves it with
\* all previously stored entries in their previous relative order plus new
\* ones, sorted descending by score.
StoreAppendOnly ==
    [][\A c \in Categories :
         localStorage'[c] # localStorage[c]
           => /\ Len(localStorage'[c]) > Len(localStorage[c])
              /\ IsSubsequence(localStorage[c], localStorage'[c])
              /\ SortedByScore(localStorage'[c])]_vars

\* C18: in a terminal state, every entry the session wrote into its category's
\* stored leaderboard carries the session's final score.
EntryScoreIsFinalScore ==
    Terminal =>
        \A i \in DOMAIN localStorage[category] :
            localStorage[category][i].name = userName
                => localStorage[category][i].score = score

\* C19: the question bank is never mutated: every category's list is the
\* sequence that was loaded.
BankNeverMutated ==
    questionsData = QuestionBank

----------------------------------------------------------------------------
(* Liveness                                                                *)

\* A click on the button of a paused game.
resume == isPaused /\ handlePauseResume

\* The assumptions of the claim, read in its favour: a scheduled evaluation
\* runs when its second has passed, the player does not leave the game paused
\* forever, and does not keep the countdown from ticking by pausing and
\* resuming within every second either (each resume installs a new interval
\* with a whole second to run, so the code itself only gives weak fairness
\* of tick).
FairSpec ==
    /\ Spec
    /\ SF_vars(tick)
    /\ WF_vars(timeoutFires)
    /\ WF_vars(resume)

\* C20: every started session eventually reaches won or lost.
StartedSessionEnds ==
    (gameState = "playing") ~> Terminal

====
